---------------------------- MODULE Spec2Model ----------------------------
(***************************************************************************)
(* A model of surrealdb_util (src/src/lib.rs): the argument builder, the   *)
(* query builder and its result normalisation, Record::remove, and the     *)
(* FromValue casting framework.                                            *)
(*                                                                         *)
(* Five specifications share the module, one per part of the library:      *)
(*   SpecCast       ValueCast::cast / FromValue::from_value                *)
(*   SpecRecord     Record::remove                                         *)
(*   SpecArgs       ArgsBuilder::arg / sub_args and the pass-throughs      *)
(*   SpecExecute    QueryBuilder::execute's result normalisation           *)
(*   SpecQuery      several QueryBuilders against one Db                   *)
(***************************************************************************)
EXTENDS Integers, Sequences, FiniteSets, TLC

VARIABLES
    castIn, castTo, castOut,        \* the Value being cast, the target type, the Result
    rec, rec0, removes,             \* a Record, the Record as produced, the remove calls made
    args, given, owner,             \* an ArgsBuilder, the values its calls gave, who holds it
    db, qb, reqs, resp, result      \* the Db, the QueryBuilders, the engine's requests,
                                    \* the last engine response and execute's result for it

castVars == <<castIn, castTo, castOut>>
recVars == <<rec, rec0, removes>>
argVars == <<args, given, owner>>
qVars == <<db, qb, reqs, resp, result>>
vars == <<castIn, castTo, castOut, rec, rec0, removes, args, given, owner,
          db, qb, reqs, resp, result>>

(***************************************************************************)
(* Bounds of the model.                                                    *)
(***************************************************************************)
MaxNumber == 2          \* numbers, durations, datetimes and numeric ids are 0..MaxNumber
MaxOptionDepth == 2     \* Option<Option<T>> is the deepest target type
MaxRemoves == 4         \* remove calls made on one Record
MaxProgSize == 1        \* calls a sub_args closure makes, nested ones included
MaxArrayLen == 3        \* elements of an array the engine returns
MaxOutcomes == 2        \* per-statement outcomes of one engine response
MaxBuilders == 2        \* QueryBuilders made from the one Db

Numbers == 0..MaxNumber
Keys == {"a", "b"}
NoFields == [k \in {} |-> 0]

(***************************************************************************)
(* Result<T> and Error (lib.rs 9-19).                                      *)
(***************************************************************************)
Ok(x) == [ok |-> TRUE, val |-> x]
Err(e) == [ok |-> FALSE, err |-> e]
CastFailed == [kind |-> "CastFailed"]
InvalidKey(k) == [kind |-> "InvalidKey", key |-> k]
Surrealdb(e) == [kind |-> "Surrealdb", cause |-> e]

(***************************************************************************)
(* Text: a string is the sequence of its characters.                       *)
(***************************************************************************)
Digit == <<"0", "1", "2", "3", "4", "5", "6", "7", "8", "9">>
LowerHex == {"0", "1", "2", "3", "4", "5", "6", "7", "8", "9",
             "a", "b", "c", "d", "e", "f"}
UpperHex == {"A", "B", "C", "D", "E", "F"}
Letters == {"g", "h", "l", "o", "u", "r", "n", "_"}
IdentChars == LowerHex \cup UpperHex \cup Letters

ToLower(c) ==
    CASE c = "A" -> "a" [] c = "B" -> "b" [] c = "C" -> "c"
      [] c = "D" -> "d" [] c = "E" -> "e" [] c = "F" -> "f"
      [] OTHER -> c

IsHex(s) == \A i \in 1..Len(s) : s[i] \in LowerHex \cup UpperHex
LowerAll(s) == [i \in 1..Len(s) |-> ToLower(s[i])]

RECURSIVE IntToString(_)
IntToString(n) ==
    IF n < 10 THEN <<Digit[n + 1]>>
    ELSE IntToString(n \div 10) \o <<Digit[(n % 10) + 1]>>

\* Sample texts.
G1 == <<"6", "7", "e", "5", "5", "0", "4", "4">>
G2 == <<"1", "0", "b", "1">>
G3 == <<"4", "2", "6", "f">>
G4 == <<"9", "2", "4", "7">>
G5 == <<"b", "b", "6", "8", "0", "e", "5", "f", "e", "0", "c", "8">>
G1Upper == <<"6", "7", "E", "5", "5", "0", "4", "4">>
G2Bad == <<"1", "0", "g", "1">>
Hy == <<"-">>
HyphenatedText == G1 \o Hy \o G2 \o Hy \o G3 \o Hy \o G4 \o Hy \o G5
SimpleText == G1 \o G2 \o G3 \o G4 \o G5
UpperText == G1Upper \o Hy \o G2 \o Hy \o G3 \o Hy \o G4 \o Hy \o G5
BracedText == <<"{">> \o HyphenatedText \o <<"}">>
UrnText == <<"u", "r", "n", ":", "u", "u", "i", "d", ":">> \o HyphenatedText
BadHexText == G1 \o Hy \o G2Bad \o Hy \o G3 \o Hy \o G4 \o Hy \o G5
ShortText == G1 \o Hy \o G2
HelloText == <<"h", "e", "l", "l", "o">>
OtherSimpleText == G1 \o G4 \o G3 \o G2 \o G5
Texts == {<<>>, HelloText, HyphenatedText, SimpleText, UpperText, BracedText,
          UrnText, BadHexText, ShortText, OtherSimpleText}

(***************************************************************************)
(* surrealdb::sql::Value (lib.rs 4): a tagged union.  Every Value is a     *)
(* record with a tag; the tags with no payload the library reads stand for *)
(* themselves.                                                             *)
(***************************************************************************)
VNone == [tag |-> "None"]
VNull == [tag |-> "Null"]
VTrue == [tag |-> "True"]
VFalse == [tag |-> "False"]
VNumber(n) == [tag |-> "Number", num |-> n]
VStrand(s) == [tag |-> "Strand", str |-> s]
VDuration(d) == [tag |-> "Duration", secs |-> d]
VDatetime(t) == [tag |-> "Datetime", at |-> t]
VUuid(u) == [tag |-> "Uuid", uuid |-> u]
VThing(tb, id) == [tag |-> "Thing", tb |-> tb, id |-> id]
VArray(elems) == [tag |-> "Array", elems |-> elems]
VObject(fields) == [tag |-> "Object", fields |-> fields]
OtherTags == {"Geometry", "Param", "Idiom", "Table", "Model", "Regex", "Range",
              "Edges", "Future", "Function", "Subquery", "Expression"}
VOther(t) == [tag |-> t]

\* surrealdb::sql::Id, the identifier segment of a Thing.
IdNumber(n) == [id |-> "Number", num |-> n]
IdString(s) == [id |-> "String", str |-> s]

(***************************************************************************)
(* Uuid::from_str (lib.rs 182, 184): the uuid crate reads the simple form  *)
(* (32 hex digits), the hyphenated form (8-4-4-4-12), the braced form and  *)
(* the urn form, in either case.  A Uuid is its 32 lower-case hex digits.  *)
(***************************************************************************)
IsHyphenated(s) ==
    /\ Len(s) = 36
    /\ \A i \in 1..36 : IF i \in {9, 14, 19, 24} THEN s[i] = "-"
                        ELSE s[i] \in LowerHex \cup UpperHex

StripHyphens(s) == SelectSeq(s, LAMBDA c : c # "-")

Uuid_from_str(s) ==
    CASE Len(s) = 32 /\ IsHex(s) -> Ok(LowerAll(s))
      [] IsHyphenated(s) -> Ok(LowerAll(StripHyphens(s)))
      [] Len(s) = 38 /\ s[1] = "{" /\ s[38] = "}" /\ IsHyphenated(SubSeq(s, 2, 37)) ->
            Ok(LowerAll(StripHyphens(SubSeq(s, 2, 37))))
      [] Len(s) = 45 /\ SubSeq(s, 1, 9) = <<"u", "r", "n", ":", "u", "u", "i", "d", ":">>
            /\ IsHyphenated(SubSeq(s, 10, 45)) ->
            Ok(LowerAll(StripHyphens(SubSeq(s, 10, 45))))
      [] OTHER -> Err(CastFailed)

(***************************************************************************)
(* t.id.to_string() (lib.rs 184): the Display form of the Thing's Id.  A   *)
(* numeric id prints its digits; a string id prints as it is when every    *)
(* character is a letter, a digit or '_', and otherwise between the angle  *)
(* brackets the library escapes identifiers with ("<" and ">" here).       *)
(***************************************************************************)
escape_id(s) ==
    IF \A i \in 1..Len(s) : s[i] \in IdentChars THEN s
    ELSE <<"<">> \o s \o <<">">>

Id_to_string(id) ==
    IF id.id = "Number" THEN IntToString(id.num) ELSE escape_id(id.str)

(***************************************************************************)
(* The library's coercions Value::as_string, as_datetime, as_int,          *)
(* as_float, as_decimal, as_duration (lib.rs 118-173) are not part of this *)
(* repository: a coercion's result is the coercion applied to its Value.   *)
(***************************************************************************)
Coerced(fn, v) == [by |-> fn, of |-> v]

(***************************************************************************)
(* FromValue (lib.rs 111-198) and ValueCast::cast (lib.rs 204-208).  A     *)
(* target type is the sequence of its Option wrappers ending in the base   *)
(* type: <<"Option", "i64">> is Option<i64>.                               *)
(***************************************************************************)
BaseTypes == {"String", "bool", "DateTime", "i64", "f64", "BigDecimal",
              "Duration", "Uuid"}

RECURSIVE TypesOfDepth(_)
TypesOfDepth(d) ==
    IF d = 0 THEN {<<b>> : b \in BaseTypes}
    ELSE {<<"Option">> \o t : t \in TypesOfDepth(d - 1)}

TargetTypes == UNION {TypesOfDepth(d) : d \in 0..MaxOptionDepth}

String_from_value(value) ==
    IF value.tag = "Strand" THEN Ok(Coerced("as_string", value))
    ELSE Err(CastFailed)

\* A mutant of bool_from_value: the two arms swapped.
bool_from_value_swapped(value) ==
    CASE value.tag = "True" -> Ok([bool |-> FALSE])
      [] value.tag = "False" -> Ok([bool |-> TRUE])
      [] OTHER -> Err(CastFailed)

bool_from_value(value) ==
    CASE value.tag = "True" -> Ok([bool |-> TRUE])
      [] value.tag = "False" -> Ok([bool |-> FALSE])
      [] OTHER -> Err(CastFailed)

DateTime_from_value(value) ==
    IF value.tag \in {"Datetime", "Strand"} THEN Ok(Coerced("as_datetime", value))
    ELSE Err(CastFailed)

\* A mutant of i64_from_value: every tag the library's as_int reads is let through.
i64_from_value_lenient(value) ==
    IF value.tag \in {"Number", "Duration", "Datetime", "True", "Strand"}
    THEN Ok(Coerced("as_int", value))
    ELSE Err(CastFailed)

i64_from_value(value) ==
    IF value.tag \in {"Number", "Duration", "Datetime"} THEN Ok(Coerced("as_int", value))
    ELSE Err(CastFailed)

f64_from_value(value) ==
    IF value.tag \in {"Number", "Duration", "Datetime"} THEN Ok(Coerced("as_float", value))
    ELSE Err(CastFailed)

BigDecimal_from_value(value) ==
    IF value.tag = "Number" THEN Ok(Coerced("as_decimal", value))
    ELSE Err(CastFailed)

Duration_from_value(value) ==
    IF value.tag \in {"Strand", "Duration"} THEN Ok(Coerced("as_duration", value))
    ELSE Err(CastFailed)

Uuid_from_value(value) ==
    LET id == CASE value.tag = "Strand" -> Uuid_from_str(value.str)
                [] value.tag = "Uuid" -> Ok(value.uuid)
                [] value.tag = "Thing" -> Uuid_from_str(Id_to_string(value.id))
                [] OTHER -> Err(CastFailed)
    IN  IF id.ok THEN Ok([uuid |-> id.val]) ELSE Err(CastFailed)

RECURSIVE from_value(_, _)
RECURSIVE cast(_, _)

\* A mutant of Option_from_value: a failed cast becomes None.
Option_from_value_lossy(value, T) ==
    IF value.tag \in {"None", "Null"} THEN Ok([some |-> FALSE])
    ELSE LET r == cast(value, T)
         IN  IF r.ok THEN Ok([some |-> TRUE, val |-> r.val]) ELSE Ok([some |-> FALSE])

\* Option<T> of a present value is [some |-> TRUE, val |-> x], None is [some |-> FALSE].
Option_from_value(value, T) ==
    IF value.tag \in {"None", "Null"} THEN Ok([some |-> FALSE])
    ELSE LET r == cast(value, T)
         IN  IF r.ok THEN Ok([some |-> TRUE, val |-> r.val]) ELSE r

from_value(value, T) ==
    CASE Head(T) = "Option" -> Option_from_value(value, Tail(T))
      [] Head(T) = "String" -> String_from_value(value)
      [] Head(T) = "bool" -> bool_from_value(value)
      [] Head(T) = "DateTime" -> DateTime_from_value(value)
      [] Head(T) = "i64" -> i64_from_value(value)
      [] Head(T) = "f64" -> f64_from_value(value)
      [] Head(T) = "BigDecimal" -> BigDecimal_from_value(value)
      [] Head(T) = "Duration" -> Duration_from_value(value)
      [] Head(T) = "Uuid" -> Uuid_from_value(value)

cast(value, T) == from_value(value, T)

(***************************************************************************)
(* SpecCast: one Value cast to one target type.                            *)
(***************************************************************************)
Uuids == {Uuid_from_str(SimpleText).val, Uuid_from_str(OtherSimpleText).val}
Ids == {IdNumber(n) : n \in Numbers} \cup {IdString(s) : s \in Texts}

CastValues ==
    {VNone, VNull, VTrue, VFalse}
        \cup {VNumber(n) : n \in Numbers}
        \cup {VStrand(s) : s \in Texts}
        \cup {VDuration(d) : d \in Numbers}
        \cup {VDatetime(t) : t \in Numbers}
        \cup {VUuid(u) : u \in Uuids}
        \cup {VThing("user", id) : id \in Ids}
        \cup {VArray(<<>>), VArray(<<VTrue>>), VObject(NoFields)}
        \cup {VOther(t) : t \in OtherTags}

\* The parts of the state a specification does not use stay as they are here.
CastIdle == castIn = VNone /\ castTo = <<"bool">> /\ castOut = <<>>
RecordIdle == rec = NoFields /\ rec0 = NoFields /\ removes = <<>>
ArgsIdle == args = NoFields /\ given = NoFields /\ owner = "ArgsBuilder"
QueryIdle ==
    /\ db = [ds |-> "ds", sess |-> "s1"] /\ qb = <<>> /\ reqs = <<>>
    /\ resp = <<>> /\ result = <<>>

InitCast ==
    /\ castIn \in CastValues
    /\ castTo \in TargetTypes
    /\ castOut = <<>>
    /\ RecordIdle /\ ArgsIdle /\ QueryIdle

\* value.cast::<T>(): castOut holds the Result once the call has returned.
Cast ==
    /\ castOut = <<>>
    /\ castOut' = <<cast(castIn, castTo)>>
    /\ UNCHANGED <<castIn, castTo, recVars, argVars, qVars>>

NextCast == Cast
SpecCast == InitCast /\ [][NextCast]_vars

(***************************************************************************)
(* The acceptance table of the casting framework, as the specification     *)
(* states it: the Value tags each base target type accepts.                *)
(***************************************************************************)
AcceptedTags(T) ==
    CASE T = "String" -> {"Strand"}
      [] T = "bool" -> {"True", "False"}
      [] T = "DateTime" -> {"Datetime", "Strand"}
      [] T = "i64" -> {"Number", "Duration", "Datetime"}
      [] T = "f64" -> {"Number", "Duration", "Datetime"}
      [] T = "BigDecimal" -> {"Number"}
      [] T = "Duration" -> {"Strand", "Duration"}
      [] T = "Uuid" -> {"Strand", "Uuid", "Thing"}

PrimitiveTags == {"None", "Null", "True", "False", "Number", "Strand", "Duration",
                  "Datetime", "Uuid", "Thing"}

\* The content a Value carries, read as the base type T.
ContentAs(v, T) ==
    CASE T = "String" -> Coerced("as_string", v)
      [] T = "bool" -> [bool |-> (v.tag = "True")]
      [] T = "DateTime" -> Coerced("as_datetime", v)
      [] T = "i64" -> Coerced("as_int", v)
      [] T = "f64" -> Coerced("as_float", v)
      [] T = "BigDecimal" -> Coerced("as_decimal", v)
      [] T = "Duration" -> Coerced("as_duration", v)
      [] T = "Uuid" -> CASE v.tag = "Uuid" -> [uuid |-> v.uuid]
                         [] v.tag = "Strand" -> [uuid |-> Uuid_from_str(v.str).val]
                         [] v.tag = "Thing" ->
                                [uuid |-> Uuid_from_str(Id_to_string(v.id)).val]

\* The text of an Id's identifier segment, unescaped.
IdText(id) == IF id.id = "Number" THEN IntToString(id.num) ELSE id.str

\* The text a cast to Uuid parses.
UuidTextOf(v) == IF v.tag = "Strand" THEN v.str ELSE Id_to_string(v.id)

CastDone == castOut # <<>>
BaseTarget == Len(castTo) = 1

\* C3: a Value whose tag is not in the accepted set of a base target type casts to
\* Err(CastFailed), and no cast to a base target type ends in any other error.
C3_RejectedTagsFailWithCastFailed ==
    (CastDone /\ BaseTarget) =>
        /\ castIn.tag \notin AcceptedTags(castTo[1]) => castOut[1] = Err(CastFailed)
        /\ castOut[1].ok \/ castOut[1].err = CastFailed

C3_Witness ==
    /\ CastDone /\ castTo = <<"i64">> /\ castIn = VTrue
    /\ castOut[1] = Err(CastFailed)

C5_OptionComposition ==
    (CastDone /\ Head(castTo) = "Option") =>
        IF castIn.tag \in {"None", "Null"}
        THEN castOut[1] = Ok([some |-> FALSE])
        ELSE LET direct == cast(castIn, Tail(castTo))
             IN  IF direct.ok
                 THEN castOut[1] = Ok([some |-> TRUE, val |-> direct.val])
                 ELSE castOut[1] = direct

C5_Witness ==
    /\ CastDone /\ castTo = <<"Option", "Uuid">> /\ castIn = VStrand(HelloText)
    /\ castOut[1] = Err(CastFailed)

\* C6: casting to Uuid gives a Uuid Value's uuid, the uuid parsed from a string's
\* text, and the uuid parsed from a record-reference's identifier segment, and
\* fails with CastFailed when that text is not UUID text.
C6_UuidFromIdentifierSegment ==
    (CastDone /\ castTo = <<"Uuid">>) =>
        /\ castIn.tag = "Uuid" => castOut[1] = Ok([uuid |-> castIn.uuid])
        /\ castIn.tag = "Strand" =>
              LET u == Uuid_from_str(castIn.str)
              IN  castOut[1] = IF u.ok THEN Ok([uuid |-> u.val]) ELSE Err(CastFailed)
        /\ castIn.tag = "Thing" =>
              LET u == Uuid_from_str(IdText(castIn.id))
              IN  castOut[1] = IF u.ok THEN Ok([uuid |-> u.val]) ELSE Err(CastFailed)

(***************************************************************************)
(* SpecRecord: remove calls on one Record (lib.rs 33-41).  A Record is the *)
(* mapping of its Object; removes keeps each call's key and Result.        *)
(***************************************************************************)
FieldKeys == Keys \cup {"c"}
FieldValues == {VNumber(1), VStrand(HelloText)}

\* The mappings from a subset of keys to values.
Mappings(keys, values) == UNION {[d -> values] : d \in SUBSET keys}

\* BTreeMap::remove: the mapping without k.
MapRemove(m, k) == [x \in DOMAIN m \ {k} |-> m[x]]

\* BTreeMap::insert: the mapping with k bound to v, whatever k was bound to.
MapInsert(m, k, v) == [x \in DOMAIN m \cup {k} |-> IF x = k THEN v ELSE m[x]]

\* The Result of self.0.remove(k).map(|v| v.into()).ok_or(Error::InvalidKey(k)).
Record_remove_result(r, k) ==
    IF k \in DOMAIN r THEN Ok(r[k]) ELSE Err(InvalidKey(k))

\* A mutant of Record_remove_record: the field is read and left in place.
Record_remove_record_peek(r, k) == r

\* The Record after self.0.remove(k).
Record_remove_record(r, k) == MapRemove(r, k)

InitRecord ==
    /\ rec0 \in Mappings(FieldKeys, FieldValues)
    /\ rec = rec0
    /\ removes = <<>>
    /\ CastIdle /\ ArgsIdle /\ QueryIdle

Record_remove(k) ==
    /\ Len(removes) < MaxRemoves
    /\ removes' = Append(removes, [key |-> k, out |-> Record_remove_result(rec, k)])
    /\ rec' = Record_remove_record(rec, k)
    /\ UNCHANGED <<rec0, castVars, argVars, qVars>>

NextRecord == \E k \in FieldKeys : Record_remove(k)
SpecRecord == InitRecord /\ [][NextRecord]_vars

\* C2: the i-th remove call, of key k, gives Ok of the value the Record was
\* produced with under k iff k was a key of the Record as produced and no earlier
\* remove of k succeeded; otherwise it gives Err(InvalidKey(k)).
C2_RemoveSucceedsOncePerKey ==
    \A i \in 1..Len(removes) :
        LET k == removes[i].key
            fresh == /\ k \in DOMAIN rec0
                     /\ \A j \in 1..(i - 1) : ~(removes[j].key = k /\ removes[j].out.ok)
        IN  removes[i].out = IF fresh THEN Ok(rec0[k]) ELSE Err(InvalidKey(k))

\* A present key removed, a different key removed, an absent key refused, the
\* first key refused the second time.
C2_Witness ==
    /\ rec0 = [k \in {"a", "b"} |-> IF k = "a" THEN VNumber(1) ELSE VStrand(HelloText)]
    /\ removes = << [key |-> "a", out |-> Ok(VNumber(1))],
                    [key |-> "c", out |-> Err(InvalidKey("c"))],
                    [key |-> "b", out |-> Ok(VStrand(HelloText))],
                    [key |-> "a", out |-> Err(InvalidKey("a"))] >>

(***************************************************************************)
(* ArgsBuilder (lib.rs 88-109) and QueryBuilder's pass-throughs (lib.rs    *)
(* 58-66).  An ArgsBuilder is the mapping of its BTreeMap.  The closure    *)
(* handed to sub_args is the sequence of calls it makes on the builder it  *)
(* is given: [op |-> "arg", key, val] or [op |-> "sub_args", key, f].      *)
(***************************************************************************)
ArgValues == {VNumber(1), VNumber(2)}

ArgCall(k, v) == [op |-> "arg", key |-> k, val |-> v]
SubArgsCall(k, f) == [op |-> "sub_args", key |-> k, f |-> f]

RECURSIVE ClosuresOfSize(_)
RECURSIVE CallsOfSize(_)
\* The calls that make n calls in all, nested ones included.
CallsOfSize(n) ==
    {SubArgsCall(k, f) : k \in Keys, f \in ClosuresOfSize(n - 1)}
        \cup (IF n = 1 THEN {ArgCall(k, v) : k \in Keys, v \in ArgValues} ELSE {})

ClosuresOfSize(n) ==
    IF n = 0 THEN {<<>>}
    ELSE UNION {{<<c>> \o rest : c \in CallsOfSize(t), rest \in ClosuresOfSize(n - t)} :
                t \in 1..n}

Closures(n) == UNION {ClosuresOfSize(m) : m \in 0..n}

\* ArgsBuilder::default().
ArgsBuilder_default == NoFields

\* impl From<ArgsBuilder> for Value: value.0.into(), an Object of the mapping.
Value_from_ArgsBuilder(builder) == VObject(builder)

\* A mutant of ArgsBuilder_arg: a key already bound keeps its value.
ArgsBuilder_arg_keep_first(builder, key, value) ==
    IF key \in DOMAIN builder THEN builder ELSE MapInsert(builder, key, value)

\* ArgsBuilder::arg: self.0.insert(key.into(), value.into()).
ArgsBuilder_arg(builder, key, value) == MapInsert(builder, key, value)

RECURSIVE RunClosure(_, _)
RECURSIVE ArgsBuilder_sub_args(_, _, _)

\* A mutant of ArgsBuilder_sub_args: the closure runs on a copy of the parent.
ArgsBuilder_sub_args_inherit(builder, key, f) ==
    LET sub_args == RunClosure(f, builder)
    IN  MapInsert(builder, key, Value_from_ArgsBuilder(sub_args))

\* ArgsBuilder::sub_args: f runs on a fresh builder, which is then inserted.
ArgsBuilder_sub_args(builder, key, f) ==
    LET sub_args == RunClosure(f, ArgsBuilder_default)
    IN  MapInsert(builder, key, Value_from_ArgsBuilder(sub_args))

\* f(&mut sub_args): the closure's calls, in order, on the builder it is given.
RunClosure(f, builder) ==
    IF f = <<>> THEN builder
    ELSE LET c == Head(f)
             next == IF c.op = "arg" THEN ArgsBuilder_arg(builder, c.key, c.val)
                     ELSE ArgsBuilder_sub_args(builder, c.key, c.f)
         IN  RunClosure(Tail(f), next)

\* QueryBuilder::arg and QueryBuilder::sub_args: self.args.arg / self.args.sub_args.
QueryBuilder_arg(q, key, value) == [q EXCEPT !.args = ArgsBuilder_arg(@, key, value)]
QueryBuilder_sub_args(q, key, f) == [q EXCEPT !.args = ArgsBuilder_sub_args(@, key, f)]

\* QueryBuilder::new.
QueryBuilder_new(sql) == [sql |-> sql, args |-> ArgsBuilder_default]

(***************************************************************************)
(* What a call gives, stated apart from the builder's code: an arg call    *)
(* gives its value; a sub_args call gives the bindings its closure makes,  *)
(* each name bound by the last call of the closure that names it.          *)
(***************************************************************************)
RECURSIVE BindingsMade(_)
BindingsMade(f) ==
    LET named == {f[i].key : i \in 1..Len(f)}
        last(k) == f[CHOOSE i \in 1..Len(f) :
                        f[i].key = k /\ \A j \in (i + 1)..Len(f) : f[j].key # k]
    IN  [k \in named |-> IF last(k).op = "arg" THEN last(k).val
                         ELSE VObject(BindingsMade(last(k).f))]

Given(c, rebound) ==
    IF c.op = "arg" THEN [op |-> "arg", val |-> c.val, rebound |-> rebound]
    ELSE [op |-> "sub_args", fields |-> BindingsMade(c.f), rebound |-> rebound]

(***************************************************************************)
(* SpecArgs: calls on one ArgsBuilder, held by the caller or by a          *)
(* QueryBuilder.  given[k] is <<>> until a call names k, and then holds    *)
(* what the last call naming k gave and whether k was named before.        *)
(***************************************************************************)
InitArgs ==
    /\ owner \in {"ArgsBuilder", "QueryBuilder"}
    /\ args = ArgsBuilder_default
    /\ given = [k \in Keys |-> <<>>]
    /\ CastIdle /\ RecordIdle /\ QueryIdle

Call_ArgsBuilder_arg(k, v) ==
    /\ owner = "ArgsBuilder"
    /\ args' = ArgsBuilder_arg(args, k, v)
    /\ given' = [given EXCEPT ![k] = <<Given(ArgCall(k, v), given[k] # <<>>)>>]
    /\ UNCHANGED <<owner, castVars, recVars, qVars>>

Call_ArgsBuilder_sub_args(k, f) ==
    /\ owner = "ArgsBuilder"
    /\ args' = ArgsBuilder_sub_args(args, k, f)
    /\ given' = [given EXCEPT ![k] = <<Given(SubArgsCall(k, f), given[k] # <<>>)>>]
    /\ UNCHANGED <<owner, castVars, recVars, qVars>>

Call_QueryBuilder_arg(k, v) ==
    /\ owner = "QueryBuilder"
    /\ args' = QueryBuilder_arg([sql |-> "q1", args |-> args], k, v).args
    /\ given' = [given EXCEPT ![k] = <<Given(ArgCall(k, v), given[k] # <<>>)>>]
    /\ UNCHANGED <<owner, castVars, recVars, qVars>>

Call_QueryBuilder_sub_args(k, f) ==
    /\ owner = "QueryBuilder"
    /\ args' = QueryBuilder_sub_args([sql |-> "q1", args |-> args], k, f).args
    /\ given' = [given EXCEPT ![k] = <<Given(SubArgsCall(k, f), given[k] # <<>>)>>]
    /\ UNCHANGED <<owner, castVars, recVars, qVars>>

NextArgs ==
    \/ \E k \in Keys, v \in ArgValues : Call_ArgsBuilder_arg(k, v)
    \/ \E k \in Keys, f \in Closures(MaxProgSize) : Call_ArgsBuilder_sub_args(k, f)
    \/ \E k \in Keys, v \in ArgValues : Call_QueryBuilder_arg(k, v)
    \/ \E k \in Keys, f \in Closures(MaxProgSize) : Call_QueryBuilder_sub_args(k, f)

SpecArgs == InitArgs /\ [][NextArgs]_vars

\* C7: after any calls, a name is bound iff some call named it, and it is bound
\* to what the last call naming it gave: the value of an arg call, the object of
\* a sub_args call.
C7_LastWriteWins ==
    \A k \in Keys :
        IF given[k] = <<>> THEN k \notin DOMAIN args
        ELSE /\ k \in DOMAIN args
             /\ args[k] = IF given[k][1].op = "arg" THEN given[k][1].val
                          ELSE VObject(given[k][1].fields)

\* arg(a, 1), then arg(a, 2) and arg(b, 1): a is bound to 2 and b to 1.
C7_Witness ==
    /\ given["a"] = <<[op |-> "arg", val |-> VNumber(2), rebound |-> TRUE]>>
    /\ given["b"] = <<[op |-> "arg", val |-> VNumber(1), rebound |-> FALSE]>>
    /\ args = [k \in {"a", "b"} |-> IF k = "a" THEN VNumber(2) ELSE VNumber(1)]

\* C8: a name last bound by sub_args is bound to an Object whose fields are
\* exactly the bindings the closure made (none of them the parent's), and the
\* builder converts to the Object of all its bindings.
C8_SubArgsNestsFreshBuilder ==
    /\ \A k \in Keys :
          (given[k] # <<>> /\ given[k][1].op = "sub_args") =>
              /\ k \in DOMAIN args
              /\ args[k].tag = "Object"
              /\ args[k].fields = given[k][1].fields
    /\ Value_from_ArgsBuilder(args).tag = "Object"
    /\ DOMAIN Value_from_ArgsBuilder(args).fields = {k \in Keys : given[k] # <<>>}
    /\ \A k \in DOMAIN args : Value_from_ArgsBuilder(args).fields[k] = args[k]

\* arg(a, 1) then sub_args(b, s => s.arg(a, 2)) converts to {a: 1, b: {a: 2}}.
C8_Witness ==
    /\ given["a"] = <<[op |-> "arg", val |-> VNumber(1), rebound |-> FALSE]>>
    /\ given["b"] = <<[op |-> "sub_args", fields |-> [k \in {"a"} |-> VNumber(2)],
                       rebound |-> FALSE]>>
    /\ Value_from_ArgsBuilder(args) =
          VObject([k \in {"a", "b"} |->
                      IF k = "a" THEN VNumber(1)
                      ELSE VObject([j \in {"a"} |-> VNumber(2)])])

(***************************************************************************)
(* QueryBuilder::execute (lib.rs 68-85).  The engine answers one request   *)
(* with Err(e), or with Ok of a sequence of per-statement responses, each  *)
(* holding a result that is Ok(Value) or Err(e).                           *)
(***************************************************************************)
EngineErrors == {"QueryError", "TxFailure"}

\* Record(obj): a Record is the mapping of the Object it wraps.
Record(obj) == obj.fields

\* A mutant of records_of_value: an array's elements are all kept.
records_of_value_keep_all(v) ==
    CASE v.tag = "Object" -> <<Record(v)>>
      [] v.tag = "Array" ->
            [i \in 1..Len(v.elems) |->
                IF v.elems[i].tag = "Object" THEN Record(v.elems[i]) ELSE NoFields]
      [] OTHER -> <<>>

\* The closure of lib.rs 73-82: the Vec<Record> of a statement's Value.
records_of_value(v) ==
    CASE v.tag = "Object" -> <<Record(v)>>
      [] v.tag = "Array" ->
            LET objs == SelectSeq(v.elems, LAMBDA e : e.tag = "Object")
            IN  [i \in 1..Len(objs) |-> Record(objs[i])]
      [] OTHER -> <<>>

\* A mutant of execute_result: the last response is read, not the first.
execute_result_last(response) ==
    IF ~response.ok THEN Err(Surrealdb(response.err))
    ELSE IF response.val = <<>> THEN Ok(<<>>)
    ELSE LET r == response.val[Len(response.val)].result
         IN  IF r.ok THEN Ok(records_of_value(r.val)) ELSE Err(Surrealdb(r.err))

\* What execute returns for the engine's answer: .await?, .into_iter().next(),
\* .map(..), .unwrap_or(Ok(Default::default())), .map_err(|e| e.into()).
execute_result(response) ==
    IF ~response.ok THEN Err(Surrealdb(response.err))
    ELSE IF response.val = <<>> THEN Ok(<<>>)
    ELSE LET r == Head(response.val).result
         IN  IF r.ok THEN Ok(records_of_value(r.val)) ELSE Err(Surrealdb(r.err))

\* A mutant of execute_request: no variables are passed.
execute_request_no_vars(q, d, strict) ==
    [sql |-> q.sql, sess |-> d.sess, vars |-> NoFields, strict |-> strict]

\* The request of lib.rs 69: execute(&self.sql, &self.db.1, Some(self.args.0), strict).
execute_request(q, d, strict) ==
    [sql |-> q.sql, sess |-> d.sess, vars |-> q.args, strict |-> strict]

(***************************************************************************)
(* The state of the query side.  qb[b] is the b-th QueryBuilder made: its  *)
(* sql and args, and where it is: "building" until execute is called,      *)
(* "awaiting" while execute awaits the engine, "done" once execute has     *)
(* returned.  execute takes self by value: a builder that is not           *)
(* "building" no longer exists for the caller; its fields stay as they     *)
(* were when execute took it, with the strict flag it was called with.     *)
(* reqs is every request the engine received, with the builder it is from. *)
(***************************************************************************)
Sqls == {"q1", "q2"}
Sessions == {"s1", "s2"}

\* Db::query.
Db_query(sql) ==
    /\ Len(qb) < MaxBuilders
    /\ qb' = Append(qb, QueryBuilder_new(sql) @@ [st |-> "building"])
    /\ UNCHANGED <<db, reqs, resp, result, castVars, recVars, argVars>>

Chain_arg(b, k, v) ==
    /\ qb[b].st = "building"
    /\ qb' = [qb EXCEPT ![b] = QueryBuilder_arg(@, k, v)]
    /\ UNCHANGED <<db, reqs, resp, result, castVars, recVars, argVars>>

Chain_sub_args(b, k, f) ==
    /\ qb[b].st = "building"
    /\ qb' = [qb EXCEPT ![b] = QueryBuilder_sub_args(@, k, f)]
    /\ UNCHANGED <<db, reqs, resp, result, castVars, recVars, argVars>>

\* execute up to its await: the one request is with the engine.
Execute_call(b, strict) ==
    /\ qb[b].st = "building"
    /\ reqs' = Append(reqs, [by |-> b, req |-> execute_request(qb[b], db, strict)])
    /\ qb' = [qb EXCEPT ![b] = [sql |-> @.sql, args |-> @.args,
                                st |-> "awaiting", strict |-> strict]]
    /\ UNCHANGED <<db, resp, result, castVars, recVars, argVars>>

\* execute from its await on: the engine's answer is turned into the Result.
Execute_return(b, response) ==
    /\ qb[b].st = "awaiting"
    /\ qb' = [qb EXCEPT ![b].st = "done"]
    /\ resp' = <<response>>
    /\ result' = <<[by |-> b, out |-> execute_result(response)]>>
    /\ UNCHANGED <<db, reqs, castVars, recVars, argVars>>

(***************************************************************************)
(* SpecExecute: one QueryBuilder executed, over the answers of the engine. *)
(***************************************************************************)
Obj1 == VObject([k \in {"a"} |-> VNumber(1)])
Obj2 == VObject([k \in {"b"} |-> VStrand(HelloText)])
ArrayElems == {Obj1, Obj2, VStrand(HelloText)}

RECURSIVE SeqsUpTo(_, _)
\* The sequences of at most n elements of S.
SeqsUpTo(S, n) ==
    IF n = 0 THEN {<<>>}
    ELSE SeqsUpTo(S, n - 1) \cup {Append(q, x) : q \in SeqsUpTo(S, n - 1), x \in S}

FirstValues ==
    {Obj1, Obj2, VNumber(1), VNone, VNull, VTrue, VStrand(HelloText)}
        \cup {VArray(a) : a \in SeqsUpTo(ArrayElems, MaxArrayLen)}
FirstOutcomes ==
    {[result |-> Ok(v)] : v \in FirstValues}
        \cup {[result |-> Err(e)] : e \in EngineErrors}
LaterOutcomes ==
    {[result |-> Ok(Obj2)], [result |-> Ok(VNumber(2))], [result |-> Err("TxFailure")]}

Responses ==
    {Err(e) : e \in EngineErrors}
        \cup {Ok(<<>>)}
        \cup {Ok(<<first>> \o later) : first \in FirstOutcomes,
                                     later \in SeqsUpTo(LaterOutcomes, MaxOutcomes - 1)}

InitExecute ==
    /\ db \in [ds : {"ds"}, sess : Sessions]
    /\ \E sql \in Sqls :
          qb = <<QueryBuilder_new(sql) @@ [st |-> "building"]>>
    /\ reqs = <<>> /\ resp = <<>> /\ result = <<>>
    /\ CastIdle /\ RecordIdle /\ ArgsIdle

NextExecute ==
    \/ \E strict \in BOOLEAN : Execute_call(1, strict)
    \/ \E response \in Responses : Execute_return(1, response)

SpecExecute == InitExecute /\ [][NextExecute]_vars

Returned == result # <<>>
FirstOutcome == Head(resp[1].val).result

\* The indices of an array's object-shaped elements, and the j-th of them.
ObjectIndices(elems) == {i \in 1..Len(elems) : elems[i].tag = "Object"}
NthObjectIndex(elems, j) ==
    CHOOSE i \in ObjectIndices(elems) :
        Cardinality({h \in ObjectIndices(elems) : h < i}) = j - 1

\* C1: when the first statement gave an Object, execute returns the one Record of
\* it; when it gave an Array, one Record per object-shaped element, in order, and
\* nothing for the other elements; when it gave any other Value, no Record; when
\* it failed, execute fails with the engine's error wrapped.
C1_ResultShapeNormalisation ==
    (Returned /\ resp[1].ok /\ resp[1].val # <<>>) =>
        LET out == result[1].out
        IN  IF ~FirstOutcome.ok THEN out = Err(Surrealdb(FirstOutcome.err))
            ELSE LET v == FirstOutcome.val
                 IN  /\ out.ok
                     /\ v.tag = "Object" => out.val = <<v.fields>>
                     /\ v.tag = "Array" =>
                           /\ Len(out.val) = Cardinality(ObjectIndices(v.elems))
                           /\ \A j \in 1..Len(out.val) :
                                 out.val[j] = v.elems[NthObjectIndex(v.elems, j)].fields
                     /\ v.tag \notin {"Object", "Array"} => out.val = <<>>

\* An array of an object, a string and another object gives the two Records.
C1_Witness ==
    /\ Returned /\ resp[1].ok /\ Len(resp[1].val) = 1
    /\ FirstOutcome = Ok(VArray(<<Obj2, VStrand(HelloText), Obj1>>))
    /\ result[1].out = Ok(<<Obj2.fields, Obj1.fields>>)

\* C10: a successful engine call with no outcome gives Ok of no Records, and with
\* several outcomes execute returns what it returns for the first outcome alone.
C10_OnlyFirstOutcomeConsulted ==
    (Returned /\ resp[1].ok) =>
        IF resp[1].val = <<>> THEN result[1].out = Ok(<<>>)
        ELSE result[1].out = execute_result(Ok(<<Head(resp[1].val)>>))

\* The first statement gave an Object and the second failed: execute succeeds.
C10_Witness ==
    /\ Returned /\ resp[1].ok /\ Len(resp[1].val) = 2
    /\ FirstOutcome = Ok(Obj1)
    /\ ~resp[1].val[2].result.ok
    /\ result[1].out = Ok(<<Obj1.fields>>)

(***************************************************************************)
(* SpecQuery: up to MaxBuilders QueryBuilders made from one Db, chained    *)
(* and executed in any interleaving.                                       *)
(***************************************************************************)
QueryKeys == {"a"}
QueryValues == {VNumber(1)}
QueryClosures == {<<ArgCall("b", VNumber(2))>>}
QueryResponses == {Err("TxFailure"), Ok(<<[result |-> Ok(Obj1)]>>)}

InitQuery ==
    /\ db \in [ds : {"ds"}, sess : Sessions]
    /\ qb = <<>> /\ reqs = <<>> /\ resp = <<>> /\ result = <<>>
    /\ CastIdle /\ RecordIdle /\ ArgsIdle

NextQuery ==
    \/ \E sql \in Sqls : Db_query(sql)
    \/ \E b \in DOMAIN qb, k \in QueryKeys, v \in QueryValues : Chain_arg(b, k, v)
    \/ \E b \in DOMAIN qb, k \in QueryKeys, f \in QueryClosures : Chain_sub_args(b, k, f)
    \/ \E b \in DOMAIN qb, strict \in BOOLEAN : Execute_call(b, strict)
    \/ \E b \in DOMAIN qb, response \in QueryResponses : Execute_return(b, response)

SpecQuery == InitQuery /\ [][NextQuery]_vars

RequestsBy(b) == {i \in 1..Len(reqs) : reqs[i].by = b}

\* Every builder that execute has taken has exactly one request with the engine,
\* carrying its template, the session, its arguments and the strict flag; a
\* builder still being built has none.
OneRequestPerExecute ==
    \A b \in DOMAIN qb :
        IF qb[b].st = "building" THEN RequestsBy(b) = {}
        ELSE /\ Cardinality(RequestsBy(b)) = 1
             /\ \A i \in RequestsBy(b) :
                   reqs[i].req = [sql |-> qb[b].sql, sess |-> db.sess,
                                  vars |-> qb[b].args, strict |-> qb[b].strict]

\* A builder that execute has taken takes no further arg, sub_args or execute.
SpentBuilderStaysSpent ==
    \A b \in DOMAIN qb :
        qb[b].st # "building" =>
            /\ qb'[b].st # "building"
            /\ qb'[b].sql = qb[b].sql
            /\ qb'[b].args = qb[b].args
            /\ qb'[b].strict = qb[b].strict
            /\ {i \in 1..Len(reqs') : reqs'[i].by = b} = RequestsBy(b)
            /\ \A i \in RequestsBy(b) : reqs'[i] = reqs[i]

\* C9: each QueryBuilder issues at most one request over its whole life, the one
\* execute makes with its own template, session, arguments and strict flag, and
\* once executed it takes no further step but the return of that execute.
C9_SingleShotBuilder == [](OneRequestPerExecute) /\ [][SpentBuilderStaysSpent]_vars

\* Two builders with different templates and arguments, executed in the order
\* opposite to their making, the second with strict set: each request is its own.
C9_Witness ==
    /\ Len(qb) = 2 /\ Len(reqs) = 2
    /\ qb[1].st = "done" /\ qb[2].st = "done"
    /\ reqs[1].by = 2 /\ reqs[2].by = 1
    /\ qb[1].sql # qb[2].sql /\ qb[1].args # qb[2].args
    /\ qb[1].args # NoFields
    /\ reqs[1].req.strict /\ ~reqs[2].req.strict

=============================================================================
